---------------------------- MODULE Spec2Model ----------------------------
(***************************************************************************)
(* Model of plugins/map_plugin/src/map_data.rs: the parameter structs of   *)
(* the terrain map (NoiseData, HeightCurve, MaterialData, MapData), the    *)
(* height remapping HeightCurve::evaluate and the facade MapData::generate.*)
(*                                                                         *)
(* Reals are fixed-point numbers in hundredths: 0.25 is 25, 1.0 is One,    *)
(* 40.0 is 4000.  Arithmetic on them is exact, so f32/f64 rounding is not  *)
(* modelled; the IEEE special values NaN and +-infinity are.               *)
(***************************************************************************)
EXTENDS Integers, Sequences, FiniteSets, TLC

VARIABLES
    map,        \* the MapData value the inspector edits and generate reads
    edits,      \* number of inspector edits made to `map` since construction
    op,         \* the operation that produced this state
    out,        \* the last generate call: its &self and what it returned
    first,      \* an earlier generate call kept for comparison, or NoOutput
    curve,      \* SpecCurve: the HeightCurve under evaluation
    prev,       \* SpecCurve: the evaluate call before the last one, or NoCall
    last        \* SpecCurve: the last evaluate call on `curve`, or NoCall

mapVars == <<map, edits, op, out, first>>
vars == <<map, edits, op, out, first, curve, prev, last>>

----------------------------------------------------------------------------
(* Bounds of the model. *)

\* Inputs and water levels are sampled every One / GridSteps.
GridSteps == 4
\* Largest slope sampled, in halves: slopes are 0.0, 0.5, ..., MaxSlope2 / 2.
MaxSlope2 == 5
\* Inspector edits made to one MapData value.
MaxEdits == 2
\* Longest layer vector the inspector's "+" button grows.
MaxLayers == 5

----------------------------------------------------------------------------
(* Fixed-point and IEEE-754 values. *)

\* The literal 1.0 of `1.0 - self.water_level`, in hundredths.
One == 100
\* One half, the step between the slopes sampled.
Half == One \div 2

Abs(i) == IF i < 0 THEN 0 - i ELSE i
Sign(i) == IF i > 0 THEN 1 ELSE IF i < 0 THEN 0 - 1 ELSE 0

RECURSIVE Gcd(_, _)
Gcd(a, b) == IF b = 0 THEN a ELSE Gcd(b, a % b)

RECURSIVE IPow(_, _)
IPow(b, e) == IF e = 0 THEN 1 ELSE b * IPow(b, e - 1)

\* A quotient of two fixed-point numbers: sg * num / den in lowest terms,
\* or one of the special values.
QNaN == [k |-> "nan", sg |-> 0, num |-> 0, den |-> 1]
QInf(s) == [k |-> "inf", sg |-> s, num |-> 1, den |-> 0]
QFin(s, p, q) == [k |-> "fin", sg |-> s, num |-> p, den |-> q]

\* An f32 result of powf with an exponent counted in halves.  The finite value
\* is sg * sqrt(n / d): n / d, in lowest terms, is the SQUARE of the magnitude,
\* which keeps x ^ 1.5 exact.  sg = 0 exactly when the value is 0.
NaN == [k |-> "nan", sg |-> 0, n |-> 0, d |-> 1]
Inf(s) == [k |-> "inf", sg |-> s, n |-> 1, d |-> 0]
Fin(s, n, d) == [k |-> "fin", sg |-> s, n |-> n, d |-> d]
Zero == Fin(0, 0, 1)
OneF == Fin(1, 1, 1)

\* IEEE division p / q of two finite numbers: x/0 is +-inf, 0/0 is NaN.
fdiv(p, q) ==
    IF q = 0
    THEN IF p = 0 THEN QNaN ELSE QInf(Sign(p))
    ELSE IF p = 0 THEN QFin(0, 0, 1)
    ELSE LET g == Gcd(Abs(p), Abs(q))
         IN  QFin(Sign(p) * Sign(q), Abs(p) \div g, Abs(q) \div g)

\* f32::powf(x, slope) for a slope that is a multiple of one half
\* (s2 = 2 * slope): pow(x, 0) = 1 for every x, NaN propagates, a negative
\* base has a real power only for an integer exponent.
powf(x, slope) ==
    LET s2 == slope \div Half
        odd == s2 % 2 = 0 /\ (s2 \div 2) % 2 = 1
    IN  IF s2 = 0 THEN OneF
        ELSE IF x.k = "nan" THEN NaN
        ELSE IF x.k = "inf"
             THEN IF x.sg < 0 /\ ~odd THEN Inf(1) ELSE Inf(x.sg)
        ELSE IF x.sg = 0 THEN Zero
        ELSE IF x.sg < 0 /\ s2 % 2 = 1 THEN NaN
        ELSE Fin(IF x.sg < 0 /\ odd THEN 0 - 1 ELSE 1,
                 IPow(x.num, s2), IPow(x.den, s2))

\* IEEE a <= b on powf results: false when either side is NaN.
Leq(a, b) ==
    IF a.k = "nan" \/ b.k = "nan" THEN FALSE
    ELSE IF a.k = "inf" THEN a.sg < 0 \/ (b.k = "inf" /\ b.sg > 0)
    ELSE IF b.k = "inf" THEN b.sg > 0
    ELSE IF a.sg # b.sg THEN a.sg < b.sg
    ELSE IF a.sg = 0 THEN TRUE
    ELSE IF a.sg > 0 THEN a.n * b.d <= b.n * a.d
    ELSE a.n * b.d >= b.n * a.d

----------------------------------------------------------------------------
(* HeightCurve *)

HeightCurve_default == [water_level |-> 25, slope |-> 150]

\* No division, no branch: what evaluate computes if the water test is lost.
evaluate_unflattened(self, input) ==
    powf(fdiv(input - self.water_level, One - self.water_level), self.slope)

\* The quotient taken over the whole range instead of the range above water.
evaluate_unscaled(self, input) ==
    IF input < self.water_level
    THEN Zero
    ELSE powf(fdiv(input - self.water_level, One), self.slope)

evaluate(self, input) ==
    IF input < self.water_level
    THEN Zero
    ELSE powf(fdiv(input - self.water_level, One - self.water_level),
              self.slope)

\* A recorded call of evaluate: its input and what it returned.
NoCall == [called |-> FALSE, input |-> 0, output |-> Zero]
Call(self, input) ==
    [called |-> TRUE, input |-> input, output |-> evaluate(self, input)]

----------------------------------------------------------------------------
(* NoiseData, MaterialData, MapData *)

\* The defaults with the lacunarity of the usual fractal noise, 2.0.
NoiseData_default_lacunarity2 ==
    [seed |-> 0, scale |-> 40 * One, octaves |-> 4, persistence |-> 50,
     lacunarity |-> 2 * One]

NoiseData_default ==
    [seed |-> 0, scale |-> 40 * One, octaves |-> 4, persistence |-> 50,
     lacunarity |-> 3 * One]

\* The defaults with the second blend width as wide as the third: the windows
\* around 0.35 and 0.5 overlap.
MaterialData_default_overlapping ==
    [layer_colors |-> <<"BLUE", "GREEN", "DARK_GREEN", "GRAY", "WHITE">>,
     layer_heights |-> <<20, 35, 50, 80>>,
     blend_values |-> <<5, 10, 10, 15>>]

MaterialData_default ==
    [layer_colors |-> <<"BLUE", "GREEN", "DARK_GREEN", "GRAY", "WHITE">>,
     layer_heights |-> <<20, 35, 50, 80>>,
     blend_values |-> <<5, 5, 10, 15>>]

MapData_default ==
    [wireframe |-> FALSE,
     map_height |-> 10 * One,
     level_of_detail |-> 0,
     noise_data |-> NoiseData_default,
     height_curve |-> HeightCurve_default,
     material_data |-> MaterialData_default]

MapData_new == MapData_default

\* MapShape::new(map_data): the mesh builder's input.  The shape is the
\* triangulated heightfield of the noise field, remapped by the height curve,
\* scaled by map_height and sampled at level_of_detail; it is kept as the
\* term over exactly those parameters.
MapShape_new(map_data) ==
    [noise_data |-> map_data.noise_data,
     height_curve |-> map_data.height_curve,
     map_height |-> map_data.map_height,
     level_of_detail |-> map_data.level_of_detail]

\* Mesh::from(MapShape): the mesh of a shape.
Mesh_from(shape) == [shape |-> shape]

\* MapMaterial::new(map_data): the shader parameters of the layers, with the
\* wireframe flag forwarded as a display hint.
MapMaterial_new(map_data) ==
    [layer_colors |-> map_data.material_data.layer_colors,
     layer_heights |-> map_data.material_data.layer_heights,
     blend_values |-> map_data.material_data.blend_values,
     wireframe |-> map_data.wireframe]

\* generate(&self) -> (Mesh, MapMaterial)
generate(self) ==
    [mesh |-> Mesh_from(MapShape_new(self)), material |-> MapMaterial_new(self)]

----------------------------------------------------------------------------
(* Spec: one MapData value, edited through the inspector and generated. *)

\* A recorded call of generate: the value it was called on, the number of
\* edits that value had seen, and what the call returned.
NoOutput == [called |-> FALSE, at |-> 0, self |-> MapData_default,
             result |-> generate(MapData_default)]
Output(self, n) ==
    [called |-> TRUE, at |-> n, self |-> self, result |-> generate(self)]

Replace(s, i, v) == [s EXCEPT ![i] = v]
Remove(s, i) == SubSeq(s, 1, i - 1) \o SubSeq(s, i + 1, Len(s))

Init ==
    /\ map = MapData_new
    /\ edits = 0
    /\ op = "new"
    /\ out = NoOutput
    /\ first = NoOutput
    /\ curve = HeightCurve_default
    /\ prev = NoCall
    /\ last = NoCall

\* One edit of `map` in the inspector: `m` is the edited value.
Edited(m) ==
    /\ edits < MaxEdits
    /\ m # map
    /\ map' = m
    /\ edits' = edits + 1
    /\ op' = "edit"
    /\ UNCHANGED <<out, first, curve, prev, last>>

InspectWireframe ==
    Edited([map EXCEPT !.wireframe = ~map.wireframe])

\* #[inspectable(min = 0.0, max = 100.0)]
InspectMapHeight ==
    \E v \in {0, 100 * One} : Edited([map EXCEPT !.map_height = v])

\* #[inspectable(min = 0, max = 6)]
InspectLevelOfDetail ==
    \E v \in {0, 6} : Edited([map EXCEPT !.level_of_detail = v])

InspectSeed ==
    \E v \in {0, 1} : Edited([map EXCEPT !.noise_data.seed = v])

\* #[inspectable(min = 0.0, max = 100.0)]
InspectScale ==
    \E v \in {0, 100 * One} : Edited([map EXCEPT !.noise_data.scale = v])

\* #[inspectable(min = 1, max = 6)]
InspectOctaves ==
    \E v \in {1, 6} : Edited([map EXCEPT !.noise_data.octaves = v])

\* #[inspectable(min = 0.0, max = 1.0, speed = 0.01)]
InspectPersistence ==
    \E v \in {0, One} : Edited([map EXCEPT !.noise_data.persistence = v])

\* #[inspectable(min = 1.0, max = 10.0, speed = 0.01)]
InspectLacunarity ==
    \E v \in {One, 10 * One} :
        Edited([map EXCEPT !.noise_data.lacunarity = v])

\* #[inspectable(min = 0.0, max = 1.0, speed = 0.01)]
InspectMapWaterLevel ==
    \E v \in {0, One} : Edited([map EXCEPT !.height_curve.water_level = v])

\* #[inspectable(min = 1.0, max = 5.0, speed = 0.01)]
InspectMapSlope ==
    \E v \in {One, 5 * One} : Edited([map EXCEPT !.height_curve.slope = v])

\* The inspector of a Vec edits an element in its bounds, appends the
\* element type's default, or deletes an element.
InspectLayerColors ==
    LET v == map.material_data.layer_colors
    IN  \/ /\ Len(v) < MaxLayers
           /\ Edited([map EXCEPT
                  !.material_data.layer_colors = Append(v, "WHITE")])
        \/ \E i \in 1..Len(v) :
               Edited([map EXCEPT !.material_data.layer_colors = Remove(v, i)])

\* #[inspectable(min = 0.0, max = 1.0, speed = 0.01)]
InspectLayerHeights ==
    LET v == map.material_data.layer_heights
    IN  \/ \E i \in 1..Len(v), x \in {0, One} :
               Edited([map EXCEPT
                   !.material_data.layer_heights = Replace(v, i, x)])
        \/ /\ Len(v) < MaxLayers
           /\ Edited([map EXCEPT !.material_data.layer_heights = Append(v, 0)])
        \/ \E i \in 1..Len(v) :
               Edited([map EXCEPT !.material_data.layer_heights = Remove(v, i)])

\* #[inspectable(min = 0.0, max = 1.0, speed = 0.01)]
InspectBlendValues ==
    LET v == map.material_data.blend_values
    IN  \/ \E i \in 1..Len(v), x \in {0, One} :
               Edited([map EXCEPT
                   !.material_data.blend_values = Replace(v, i, x)])
        \/ /\ Len(v) < MaxLayers
           /\ Edited([map EXCEPT !.material_data.blend_values = Append(v, 0)])
        \/ \E i \in 1..Len(v) :
               Edited([map EXCEPT !.material_data.blend_values = Remove(v, i)])

\* A generate that repairs a zero scale in place before it builds the mesh.
GenerateClamping ==
    /\ out' = Output(map, edits)
    /\ first' \in {first, out}
    /\ op' = "generate"
    /\ map' = [map EXCEPT !.noise_data.scale =
                              IF map.noise_data.scale = 0 THEN 1
                              ELSE map.noise_data.scale]
    /\ UNCHANGED <<edits, curve, prev, last>>

\* A generate that pairs this call's mesh with the material of the snapshot
\* the call before it was given.
GenerateStale ==
    /\ out' = [called |-> TRUE, at |-> edits, self |-> map,
               result |-> [mesh |-> Mesh_from(MapShape_new(map)),
                           material |-> IF out.called
                                        THEN MapMaterial_new(out.self)
                                        ELSE MapMaterial_new(map)]]
    /\ first' \in {first, out}
    /\ op' = "generate"
    /\ UNCHANGED <<map, edits, curve, prev, last>>

\* let (mesh, material) = map.generate(): `map` is borrowed, not changed.  The
\* call before it may be the one kept in `first`.
Generate ==
    /\ out' = Output(map, edits)
    /\ first' \in {first, out}
    /\ op' = "generate"
    /\ UNCHANGED <<map, edits, curve, prev, last>>

Next ==
    \/ InspectWireframe
    \/ InspectMapHeight
    \/ InspectLevelOfDetail
    \/ InspectSeed
    \/ InspectScale
    \/ InspectOctaves
    \/ InspectPersistence
    \/ InspectLacunarity
    \/ InspectMapWaterLevel
    \/ InspectMapSlope
    \/ InspectLayerColors
    \/ InspectLayerHeights
    \/ InspectBlendValues
    \/ Generate

Spec == Init /\ [][Next]_vars

----------------------------------------------------------------------------
(* SpecCurve: evaluate applied to sampled curves and inputs. *)

GridStep == One \div GridSteps
\* Sampled heights, one step below 0.0 to one step above 1.0.
Heights == {i * GridStep : i \in (0 - 1)..(GridSteps + 1)}
\* Heights the inspector lets water_level take: min = 0.0, max = 1.0.
WaterLevelRange == {h \in Heights : 0 <= h /\ h <= One}
Slopes == {i * Half : i \in 0..MaxSlope2}
\* Slopes the inspector lets slope take: min = 1.0 (max = 5.0, cut at the bound).
SlopeRange == {s \in Slopes : One <= s /\ s <= 5 * One}

\* The fields are public: a HeightCurve literal may hold any value.
InitCurve ==
    /\ curve \in [water_level : Heights, slope : Slopes]
    /\ prev = NoCall
    /\ last = NoCall
    /\ map = MapData_new
    /\ edits = 0
    /\ op = "new"
    /\ out = NoOutput
    /\ first = NoOutput

InspectWaterLevel ==
    \E w \in WaterLevelRange :
        /\ w # curve.water_level
        /\ curve' = [curve EXCEPT !.water_level = w]
        /\ prev' = NoCall
        /\ last' = NoCall
        /\ UNCHANGED mapVars

InspectSlope ==
    \E s \in SlopeRange :
        /\ s # curve.slope
        /\ curve' = [curve EXCEPT !.slope = s]
        /\ prev' = NoCall
        /\ last' = NoCall
        /\ UNCHANGED mapVars

Evaluate ==
    \E input \in Heights :
        /\ prev' = last
        /\ last' = Call(curve, input)
        /\ UNCHANGED <<curve, mapVars>>

NextCurve == InspectWaterLevel \/ InspectSlope \/ Evaluate

SpecCurve == InitCurve /\ [][NextCurve]_vars

----------------------------------------------------------------------------
(* The material blender, as far as the layer data decides it. *)

BlendWindowLow(m, i) == m.layer_heights[i] - m.blend_values[i]
BlendWindowHigh(m, i) == m.layer_heights[i] + m.blend_values[i]

\* The layer band of a height: the first threshold above it, or the last layer.
layer_band(m, h) ==
    LET above == {i \in 1..Len(m.layer_heights) : m.layer_heights[i] > h}
    IN  IF above = {} THEN Len(m.layer_colors)
        ELSE CHOOSE i \in above : \A j \in above : i <= j

\* The colour of a height: the flat colour of its band outside every blend
\* window, a mix of the two colours around the threshold inside one.
sample_color(m, h) ==
    LET near == {i \in 1..Len(m.layer_heights) :
                    /\ i <= Len(m.blend_values)
                    /\ BlendWindowLow(m, i) <= h
                    /\ h <= BlendWindowHigh(m, i)}
    IN  IF near = {}
        THEN [blended |-> FALSE, colors |-> <<m.layer_colors[layer_band(m, h)]>>]
        ELSE LET i == CHOOSE i \in near : \A j \in near : i <= j
             IN  [blended |-> TRUE,
                  colors |-> <<m.layer_colors[i], m.layer_colors[i + 1]>>]

----------------------------------------------------------------------------
(* Claims about HeightCurve::evaluate, checked under SpecCurve. *)

InRange(h) == 0 <= h /\ h <= One
UnitInterval(r) == r.k = "fin" /\ r.sg >= 0 /\ r.n <= r.d

\* C1: for every HeightCurve (any water_level, any slope) and every input
\* strictly below water_level, evaluate returns exactly 0.
C1_BelowWaterIsZero ==
    \A c \in {prev, last} :
        c.called /\ c.input < curve.water_level => c.output = Zero

C1_Witness ==
    /\ last.called
    /\ last.input < curve.water_level
    /\ curve.water_level = 75
    /\ curve.slope = 150
    /\ last.input = 50

\* C2: evaluate is monotonically non-decreasing: for water_level in [0,1],
\* slope >= 1 and inputs a <= b in [0,1], evaluate(a) <= evaluate(b).
C2_Monotonic ==
    /\ prev.called /\ last.called
    /\ InRange(curve.water_level) /\ curve.slope >= One
    /\ InRange(prev.input) /\ InRange(last.input)
    /\ prev.input <= last.input
    => Leq(prev.output, last.output)

\* Monotonicity as the code has it: for every water_level below 1.
MonotonicBelowOne ==
    /\ prev.called /\ last.called
    /\ InRange(curve.water_level) /\ curve.water_level < One
    /\ curve.slope >= One
    /\ InRange(prev.input) /\ InRange(last.input)
    /\ prev.input <= last.input
    => Leq(prev.output, last.output)

\* C3: for water_level in [0,1), slope >= 1 and input in [water_level, 1],
\* evaluate returns ((input - water_level) / (1 - water_level)) ^ slope, a value
\* in [0,1] that is exactly 0 at input = water_level and exactly 1 at input = 1.
\* The power is stated on squares, in grid steps: r^2 * q^(2 slope) =
\* p^(2 slope) for r = evaluate(input), p = input - water_level and
\* q = 1 - water_level.
C3_AboveWaterIsPower ==
    \A c \in {prev, last} :
        /\ c.called
        /\ InRange(curve.water_level) /\ curve.water_level < One
        /\ curve.slope >= One
        /\ curve.water_level <= c.input /\ c.input <= One
        => LET r == c.output
               p == (c.input - curve.water_level) \div GridStep
               q == (One - curve.water_level) \div GridStep
               s2 == curve.slope \div Half
           IN  /\ UnitInterval(r)
               /\ r.n * IPow(q, s2) = r.d * IPow(p, s2)
               /\ (c.input = curve.water_level => r = Zero)
               /\ (c.input = One => r = OneF)

\* evaluate(0.5) = (1/3)^1.5 for the default curve: its square is 1/27.
C3_Witness ==
    /\ last.called
    /\ curve = HeightCurve_default
    /\ last.input = 50
    /\ last.output = Fin(1, 1, 27)
    /\ prev.called
    /\ prev.input = One
    /\ prev.output = OneF

\* C4: with water_level = 1 the division by zero is guarded: every input >= 1
\* returns 1 and every input < 1 returns 0.  Stated for the slopes the
\* inspector allows, slope >= 1.
C4_WaterLevelOneGuarded ==
    \A c \in {prev, last} :
        c.called /\ curve.water_level = One /\ curve.slope >= One
        => /\ (c.input >= One => c.output = OneF)
           /\ (c.input < One => c.output = Zero)

----------------------------------------------------------------------------
(* Claims about MapData, checked under Spec. *)

StrictlyIncreasing(s) == \A i \in 1..(Len(s) - 1) : s[i] < s[i + 1]

\* The parameters section 7 of the specification calls valid.
ValidParameters(m) ==
    /\ m.noise_data.scale > 0
    /\ m.noise_data.octaves >= 1
    /\ Len(m.material_data.layer_heights)
           = Len(m.material_data.layer_colors) - 1
    /\ Len(m.material_data.blend_values)
           = Len(m.material_data.layer_heights)
    /\ StrictlyIncreasing(m.material_data.layer_heights)

\* C5: generate rejects invalid parameters before any generation happens: on a
\* MapData with scale <= 0, octaves = 0, mismatched layer vectors or
\* non-increasing layer_heights it reports a failure and returns no mesh and
\* no material.
C5_InvalidRejected ==
    out.called /\ ~ValidParameters(out.self)
    => /\ "mesh" \notin DOMAIN out.result
       /\ "material" \notin DOMAIN out.result

\* The defaults as section 6 of the specification lists them, in hundredths.
Documented(m) ==
    /\ m.noise_data.seed = 0
    /\ m.noise_data.scale = 4000
    /\ m.noise_data.octaves = 4
    /\ m.noise_data.persistence = 50
    /\ m.noise_data.lacunarity = 300
    /\ m.height_curve.water_level = 25
    /\ m.height_curve.slope = 150
    /\ m.map_height = 1000
    /\ m.level_of_detail = 0
    /\ m.wireframe = FALSE
    /\ Len(m.material_data.layer_colors) = 5
    /\ m.material_data.layer_heights = <<20, 35, 50, 80>>
    /\ m.material_data.blend_values = <<5, 5, 10, 15>>

\* C6: MapData::default() and MapData::new() yield exactly the documented
\* defaults, and a MapData nobody has edited holds them.
C6_DefaultsAsDocumented ==
    /\ Documented(MapData_default)
    /\ Documented(MapData_new)
    /\ edits = 0 => Documented(map)

C6_Witness ==
    /\ edits = 0
    /\ op = "generate"
    /\ out.self = map
    /\ map.noise_data.scale = 4000

\* C7: generate never mutates its input: a generate call leaves every field of
\* the MapData value (wireframe, map_height, level_of_detail, noise_data,
\* height_curve, material_data) as it was.
C7_GenerateKeepsInput ==
    [][op' = "generate" => map' = map /\ out'.self = map]_vars

C7_Witness ==
    /\ op = "generate"
    /\ edits = MaxEdits
    /\ out.called
    /\ out.self = map
    /\ map.wireframe = TRUE
    /\ map.noise_data.scale = 0

LayersInvariant(m) ==
    /\ StrictlyIncreasing(m.layer_heights)
    /\ Len(m.layer_heights) = Len(m.blend_values)
    /\ Len(m.layer_heights) = Len(m.layer_colors) - 1
    /\ \A i \in 1..Len(m.blend_values) : m.blend_values[i] >= 0
    /\ \A i \in 1..(Len(m.layer_heights) - 1) :
           BlendWindowHigh(m, i) <= BlendWindowLow(m, i + 1)
    /\ \A i \in 1..Len(m.layer_heights) : 10 < BlendWindowLow(m, i)
    /\ sample_color(m, 10) = [blended |-> FALSE, colors |-> <<m.layer_colors[1]>>]

\* C9: the default MaterialData satisfies the MaterialLayers invariant:
\* layer_heights strictly increasing, one threshold and one blend value per
\* colour but the last, blend values non-negative, adjacent blend windows not
\* overlapping in their interiors, and height 0.1 below every blend window, so
\* that it takes the first layer colour unblended.
C9_DefaultLayersInvariant ==
    edits = 0 => LayersInvariant(map.material_data)

C9_Witness ==
    /\ edits = 0
    /\ op = "generate"
    /\ out.result.material.layer_heights = <<20, 35, 50, 80>>
    /\ out.result.material.layer_colors[1] = "BLUE"

\* C10: octaves >= 1 and scale > 0 hold in every reachable parameter state:
\* after any edits that keep each field within its inspector bounds.
C10_NoiseInvariant ==
    map.noise_data.scale > 0 /\ map.noise_data.octaves >= 1

============================================================================
